---- MODULE Spec2Model ----
(***************************************************************************)
(* Position / risk state machine of demo_trader.py.                        *)
(*                                                                         *)
(* Fixed-point arithmetic: prices are counted in 1000 USD, amounts in      *)
(* 1/AmountScale BTC (AmountScale = 1000 * Scale), profits and balances in *)
(* 1/Scale of a currency unit, so that price * amount is a sum of money    *)
(* and round(x, 2) and round(x, 6) are real roundings (to a multiple of    *)
(* Scale/100 of money, of AmountScale/10^6 of an amount).                  *)
(* A Python None / missing position is the record NoTrade (type "NONE");   *)
(* a stop_loss of 0 stands for every falsy stop (None or 0.0).             *)
(* The risk_manager module is not part of the sources: its functions are   *)
(* modelled from the design document (section 4.1).                        *)
(***************************************************************************)
EXTENDS Integers, Sequences, FiniteSets, TLC

VARIABLES file_exists, data, config, tick, writer, reader, query, feed

vars == <<file_exists, data, config, tick, writer, reader, query, feed>>

\* ---------------------------------------------------------------- bounds
MaxTicks == 3
MaxWrites == 2
MaxCalls == 2

\* ------------------------------------------------------------- constants
START_BALANCE == 10000
BTC_USDT_RATE == 85
Scale == 10 * 10 * 10 * 10
Cent == Scale \div 100
AmountScale == 1000 * Scale
Micro == AmountScale \div (1000 * 1000)

\* ---------------------------------------------------------------- inputs
RawSignals == {"buy", "SELL", "Hold", "No Data"}
Prices == {0, 99, 100, 101}
Atrs == {0, 1}
UtbotStops == {100}

\* str.capitalize(): first character upper-cased, the rest lower-cased
Capitalize(s) ==
  CASE s = "buy" -> "Buy"
    [] s = "SELL" -> "Sell"
    [] s = "Hold" -> "Hold"
    [] s = "No Data" -> "No data"
    [] OTHER -> s

\* round(): x to the nearest multiple of unit, ties to the even multiple
RoundTo(x, unit) ==
  LET q == x \div unit
      r == x % unit
  IN  IF 2 * r < unit THEN q * unit
      ELSE IF 2 * r > unit THEN (q + 1) * unit
      ELSE IF q % 2 = 0 THEN q * unit ELSE (q + 1) * unit

\* round(x, 2) on a sum of money counted in 1/Scale
Round2(x) == RoundTo(x, Cent)

\* round(x, 6) on an amount counted in 1/AmountScale
Round6(x) == RoundTo(x, Micro)

\* ------------------------------------------------------------ data model
NoTrade ==
  [type |-> "NONE", entry_price |-> 0, amount |-> 0, original_amount |-> 0,
   stop_loss |-> 0, tp_levels |-> <<>>, atr_at_entry |-> 0,
   breakeven_moved |-> FALSE]

IsOpen(t) == t.type # "NONE"

NoRecord == [partial |-> FALSE, exit_reason |-> "NONE"]

\* the structure load_trades returns when the file does not exist
NewData ==
  [balance |-> START_BALANCE * Scale, open_trade |-> NoTrade,
   history |-> <<>>, order_log |-> <<>>, last_signal |-> "None"]

load_trades == IF file_exists THEN data ELSE NewData

\* ------------------------------------------------- risk policy (4.1)
Configs ==
  { [trailing_enabled |-> te, ladder |-> <<50, 50>>, size |-> 1230]
      : te \in BOOLEAN }

calculate_position_size(balance, cfg) == IF balance > 0 THEN cfg.size ELSE 0

\* variant: the indicator's stop is taken as it comes
calculate_stop_loss_unchecked(price, side, atr, utbot_stop, cfg) == utbot_stop

\* 4.1: the indicator's stop if it lies on the loss side of the entry,
\* else a stop at one ATR (one price step if the ATR is not positive)
calculate_stop_loss(price, side, atr, utbot_stop, cfg) ==
  IF side = "LONG"
    THEN IF utbot_stop < price THEN utbot_stop
         ELSE IF atr > 0 THEN price - atr ELSE price - 1
    ELSE IF utbot_stop > price THEN utbot_stop
         ELSE IF atr > 0 THEN price + atr ELSE price + 1

TPName(i) == CASE i = 1 -> "TP1" [] i = 2 -> "TP2" [] i = 3 -> "TP3" [] OTHER -> "TP4"

calculate_take_profit_levels(price, side, atr, cfg) ==
  [i \in 1..Len(cfg.ladder) |->
     [name |-> TPName(i),
      price |-> IF side = "LONG" THEN price + i ELSE price - i,
      percentage |-> cfg.ladder[i],
      hit |-> FALSE]]

\* variant: the stop follows the price at twice the ATR in both directions
update_trailing_stop_both_ways(price, side, current_stop, atr, cfg) ==
  IF side = "LONG" THEN price - 2 * atr ELSE price + 2 * atr

\* 4.1: a stop at one ATR from the price if that is tighter than the
\* current stop, else no new stop (None)
update_trailing_stop(price, side, current_stop, atr, cfg) ==
  IF side = "LONG"
    THEN IF price - atr > current_stop THEN price - atr ELSE 0
    ELSE IF price + atr < current_stop THEN price + atr ELSE 0

move_stop_to_breakeven(entry_price, side) == entry_price

\* ---------------------------------------------------------- check_tp_sl_hits
NoHit == [kind |-> "NONE", name |-> "", price |-> 0, percentage |-> 0, index |-> 0]

\* lines 68 and 70: the price has reached the level
tp_crossed(t, tp, current_price) ==
  \/ t.type = "LONG" /\ current_price >= tp.price
  \/ t.type = "SHORT" /\ current_price <= tp.price

\* lines 58-62: a truthy stop that the price has reached
sl_reached(t, current_price) ==
  /\ t.stop_loss # 0
  /\ \/ t.type = "LONG" /\ current_price <= t.stop_loss
     \/ t.type = "SHORT" /\ current_price >= t.stop_loss

SLHit(t) ==
  [kind |-> "SL", name |-> "SL", price |-> t.stop_loss,
   percentage |-> 0, index |-> 0]

TPHit(t, i) ==
  [kind |-> "TP", name |-> t.tp_levels[i].name, price |-> t.tp_levels[i].price,
   percentage |-> t.tp_levels[i].percentage, index |-> i - 1]

\* the levels the loop of lines 64-71 would return at, in index order
tp_candidates(t, current_price) ==
  {i \in 1..Len(t.tp_levels) :
     ~t.tp_levels[i].hit /\ tp_crossed(t, t.tp_levels[i], current_price)}

MinOf(S) == CHOOSE j \in S : \A k \in S : j <= k

\* variant: the take-profit loop runs before the stop test
check_tp_sl_hits_tp_first(t, current_price) ==
  IF ~IsOpen(t) THEN NoHit
  ELSE IF tp_candidates(t, current_price) # {}
    THEN TPHit(t, MinOf(tp_candidates(t, current_price)))
  ELSE IF sl_reached(t, current_price) THEN SLHit(t)
  ELSE NoHit

check_tp_sl_hits(t, current_price) ==
  IF ~IsOpen(t) THEN NoHit
  ELSE IF sl_reached(t, current_price) THEN SLHit(t)
  ELSE IF tp_candidates(t, current_price) # {}
    THEN TPHit(t, MinOf(tp_candidates(t, current_price)))
  ELSE NoHit

\* ------------------------------------------------------ partial_close_position
\* variant: the balance is credited with the profit as recorded
balance_credit_rounded(profit_inr) == Round2(profit_inr)

\* lines 91 and 131: data["balance"] += profit_inr
balance_credit(profit_inr) == profit_inr

ProfitUsdt(t, current_price, amount) ==
  IF t.type = "LONG" THEN (current_price - t.entry_price) * amount
  ELSE (t.entry_price - current_price) * amount

\* variant: the share is taken of the remaining amount
amount_to_close_of_remaining(t, percentage_to_close) ==
  (t.amount * percentage_to_close) \div 100

\* line 82 (the model's amounts and percentages make the division exact)
amount_to_close_of(t, percentage_to_close) ==
  (t.original_amount * percentage_to_close) \div 100

\* variant: every level moves the stop to breakeven
breakeven_due_any_index(t, tp_index) == t.stop_loss # 0

\* line 110
breakeven_due(t, tp_index) == tp_index = 0 /\ t.stop_loss # 0

\* variant: the remainder is recomputed from the original amount
amount_after_partial_of_original(t, amount_to_close) ==
  t.original_amount - amount_to_close

\* line 93: open_trade["amount"] -= amount_to_close
amount_after_partial(t, amount_to_close) == t.amount - amount_to_close

partial_close_position(d, current_price, tp_details) ==
  LET t == d.open_trade
      tp_index == tp_details.index
      amount_to_close == amount_to_close_of(t, tp_details.percentage)
      profit_usdt == ProfitUsdt(t, current_price, amount_to_close)
      profit_inr == profit_usdt * BTC_USDT_RATE
      partial_record ==
        [type |-> t.type, entry_price |-> t.entry_price,
         exit_price |-> current_price,
         amount_closed |-> Round6(amount_to_close),
         profit_usdt |-> Round2(profit_usdt),
         profit_inr |-> Round2(profit_inr),
         tp_level |-> tp_details.price,
         tp_name |-> TPName(tp_index + 1),
         partial |-> TRUE]
      t1 == [t EXCEPT !.tp_levels[tp_index + 1].hit = TRUE,
                      !.amount = amount_after_partial(t, amount_to_close)]
      t2 == IF breakeven_due(t1, tp_index)
              THEN [t1 EXCEPT !.stop_loss = move_stop_to_breakeven(t.entry_price, t.type),
                              !.breakeven_moved = TRUE]
              ELSE t1
  IN  [d EXCEPT !.balance = @ + balance_credit(profit_inr),
                !.history = Append(@, partial_record),
                !.open_trade = t2]

\* --------------------------------------------------------- close_full_position
HitNames(levels) ==
  LET F[i \in 0..Len(levels)] ==
        IF i = 0 THEN <<>>
        ELSE IF levels[i].hit THEN Append(F[i - 1], levels[i].name) ELSE F[i - 1]
  IN  F[Len(levels)]

close_full_position(d, current_price, reason) ==
  LET t == d.open_trade
      profit_usdt == ProfitUsdt(t, current_price, t.amount)
      profit_inr == profit_usdt * BTC_USDT_RATE
      trade_record ==
        [type |-> t.type, entry_price |-> t.entry_price,
         exit_price |-> current_price, amount |-> t.amount,
         profit_usdt |-> Round2(profit_usdt),
         profit_inr |-> Round2(profit_inr),
         balance_before |-> Round2(d.balance),
         balance_after |-> Round2(d.balance + profit_inr),
         exit_reason |-> reason,
         tp_levels_hit |-> HitNames(t.tp_levels),
         partial |-> FALSE]
  IN  [d EXCEPT !.balance = @ + balance_credit(profit_inr),
                !.history = Append(@, trade_record),
                !.open_trade = NoTrade]

Last(s) == s[Len(s)]

\* ------------------------------------------------------------ update_demo_trade
Missing == "MISSING"
COINS_PER_TRADE == AmountScale \div 1000

\* the log_entry dictionary as first built (lines 164-169).  Its "time"
\* (wall clock) and "price" keys are written once and never read again;
\* the entry is kept without them, the tick's price being tick.price.
NewLogEntry(signal, price) ==
  [side |-> signal, quantity |-> COINS_PER_TRADE,
   action |-> Missing, pl_inr |-> <<>>, stop_loss |-> <<>>,
   take_profits |-> <<>>]

\* variant: the stop-loss close books the stop level as the exit price
sl_exit_price_at_stop(price, details) == details.price

\* line 175: the stop-loss close is booked at the tick's price
sl_exit_price(price, details) == price

\* variant: the remainder stays open after the last take-profit
no_remaining_tps_never(t) == FALSE

\* lines 185-186
no_remaining_tps(t) ==
  {i \in 1..Len(t.tp_levels) : ~t.tp_levels[i].hit} = {}

\* variant: trailing does not wait for the breakeven move
trailing_due_before_breakeven(t, cfg) == cfg.trailing_enabled

\* line 195
trailing_due(t, cfg) == t.breakeven_moved /\ cfg.trailing_enabled

\* step 1 (lines 171-206): exit checks on the position that was loaded;
\* trail tells whether update_trailing_stop was called and what came of it
Step1(d0, signal, price, atr, cfg) ==
  LET log0 == NewLogEntry(signal, price)
      hit == check_tp_sl_hits(d0.open_trade, price)
  IN  IF ~IsOpen(d0.open_trade)
        THEN [d |-> d0, log |-> log0, msg |-> FALSE, closed |-> NoRecord,
              hit |-> NoHit, trail |-> "not called"]
      ELSE IF hit.kind = "SL"
        THEN LET d1 == close_full_position(d0, sl_exit_price(price, hit),
                                           "Stop-Loss Hit")
                 rec == Last(d1.history)
             IN  [d |-> d1,
                  log |-> [log0 EXCEPT !.action = "STOP_LOSS",
                                       !.pl_inr = <<rec.profit_inr>>],
                  msg |-> TRUE, closed |-> rec, hit |-> hit,
                  trail |-> "not called"]
      ELSE IF hit.kind = "TP"
        THEN LET d1 == partial_close_position(d0, price, hit)
                 partial_record == Last(d1.history)
                 d2 == IF no_remaining_tps(d1.open_trade)
                         THEN close_full_position(d1, price, "All TPs Hit")
                         ELSE d1
             IN  [d |-> d2,
                  log |-> [log0 EXCEPT !.action = hit.name \o "_HIT",
                                       !.pl_inr = <<partial_record.profit_inr>>],
                  msg |-> TRUE, closed |-> NoRecord, hit |-> hit,
                  trail |-> "not called"]
      ELSE IF trailing_due(d0.open_trade, cfg)
        THEN LET t == d0.open_trade
                 new_stop == update_trailing_stop(price, t.type, t.stop_loss, atr, cfg)
             IN  IF new_stop # 0
                   THEN [d |-> [d0 EXCEPT !.open_trade.stop_loss = new_stop],
                         log |-> [log0 EXCEPT !.action = "TRAILING_STOP_UPDATE"],
                         msg |-> TRUE, closed |-> NoRecord, hit |-> hit,
                         trail |-> "updated"]
                   ELSE [d |-> d0, log |-> log0, msg |-> FALSE,
                         closed |-> NoRecord, hit |-> hit, trail |-> "none"]
      ELSE [d |-> d0, log |-> log0, msg |-> FALSE, closed |-> NoRecord,
            hit |-> hit, trail |-> "not called"]

\* variant: the position is entered at the indicator's stop price
OpenTrade_at_indicator_stop(side, d, price, atr, utbot_stop, cfg) ==
  [type |-> side, entry_price |-> utbot_stop,
   amount |-> calculate_position_size(d.balance, cfg),
   original_amount |-> calculate_position_size(d.balance, cfg),
   stop_loss |-> calculate_stop_loss(price, side, atr, utbot_stop, cfg),
   tp_levels |-> calculate_take_profit_levels(price, side, atr, cfg),
   atr_at_entry |-> atr, breakeven_moved |-> FALSE]

\* the position opened at lines 231-246 / 272-287
OpenTrade(side, d, price, atr, utbot_stop, cfg) ==
  [type |-> side, entry_price |-> price,
   amount |-> calculate_position_size(d.balance, cfg),
   original_amount |-> calculate_position_size(d.balance, cfg),
   stop_loss |-> calculate_stop_loss(price, side, atr, utbot_stop, cfg),
   tp_levels |-> calculate_take_profit_levels(price, side, atr, cfg),
   atr_at_entry |-> atr, breakeven_moved |-> FALSE]

Prices_of(levels) == [i \in 1..Len(levels) |-> levels[i].price]

\* variant: a repeated signal re-opens the position
already_in_never(t, side) == FALSE

\* lines 220 and 261
already_in(t, side) == IsOpen(t) /\ t.type = side

\* variant: the opposite position is dropped without being closed
opposite_open_never(t, side) == FALSE

\* lines 225 and 266
opposite_open(t, side) ==
  IsOpen(t) /\ t.type = (IF side = "LONG" THEN "SHORT" ELSE "LONG")

\* variant: the answer of the risk gate is not looked at
gate_refuses_never(allowed) == FALSE

\* lines 216 and 257: if not trade_check["allowed"]
gate_refuses(allowed) == ~allowed

\* the Buy branch (lines 213-252) for side = "LONG", the Sell branch
\* (lines 254-293) for side = "SHORT"
SignalBranch(s1, side, signal, price, atr, utbot_stop, allowed, cfg) ==
      IF gate_refuses(allowed)
        THEN [s1 EXCEPT !.log.action = "BLOCKED"]
      ELSE IF already_in(s1.d.open_trade, side)
        THEN [s1 EXCEPT !.log.action = "IGNORED"]
      \* "CLOSE_SHORT" / "CLOSE_LONG" is assigned to log_entry["action"] at
      \* line 228 / 269 and overwritten at line 249 / 290 in the same branch
      ELSE LET rev == opposite_open(s1.d.open_trade, side)
               d2 == IF rev THEN close_full_position(s1.d, price, "Opposite Signal")
                     ELSE s1.d
               t == OpenTrade(side, d2, price, atr, utbot_stop, cfg)
           IN  [s1 EXCEPT
                  !.d = [d2 EXCEPT !.open_trade = t, !.last_signal = signal],
                  !.closed = IF rev THEN Last(d2.history) ELSE @,
                  !.log = [@ EXCEPT
                             !.action = "OPEN_" \o side,
                             !.stop_loss = <<t.stop_loss>>,
                             !.take_profits = <<Prices_of(t.tp_levels)>>]]

\* variant: a Hold tick always logs HOLD
hold_logged_always(action_message) == TRUE

\* line 209: if not action_message
hold_logged(action_message) == ~action_message

\* step 2 (lines 208-293)
Step2(s1, signal, price, atr, utbot_stop, allowed, cfg) ==
  IF signal = "Hold"
    THEN IF hold_logged(s1.msg) THEN [s1 EXCEPT !.log.action = "HOLD"] ELSE s1
  ELSE IF signal = "Buy"
    THEN SignalBranch(s1, "LONG", signal, price, atr, utbot_stop, allowed, cfg)
  ELSE IF signal = "Sell"
    THEN SignalBranch(s1, "SHORT", signal, price, atr, utbot_stop, allowed, cfg)
  ELSE s1

Gate(signal, allowed) ==
  IF signal \in {"Buy", "Sell"}
    THEN IF allowed THEN "allowed" ELSE "blocked"
    ELSE "not called"

\* variant: the log is replaced by the tick's entry
append_log_entry_alone(order_log, log_entry) == <<log_entry>>

\* line 295: data.setdefault("order_log", []).append(log_entry)
append_log_entry(order_log, log_entry) == Append(order_log, log_entry)

\* update_demo_trade(signal, price, atr_value, utbot_stop) as a whole:
\* load, step 1, step 2, append the log entry, save.  `allowed` is the
\* answer of can_open_trade, evaluated in the Buy and Sell branches only.
update_demo_trade(raw, price, atr, utbot_stop, allowed) ==
  \E signal \in {Capitalize(raw)}, d0 \in {load_trades} :
  \E s1 \in {Step1(d0, signal, price, atr, config)} :
  \E s2 \in {Step2(s1, signal, price, atr, utbot_stop, allowed, config)} :
      /\ data' = [s2.d EXCEPT !.order_log = append_log_entry(@, s2.log)]
      /\ file_exists' = TRUE
      /\ tick' = [n |-> tick.n + 1, signal |-> signal, price |-> price,
                  atr |-> atr, utbot_stop |-> utbot_stop,
                  gate |-> Gate(signal, allowed), trail |-> s1.trail,
                  pre |-> d0, mid |-> s1.d, step1_action |-> s1.log.action,
                  hit |-> s1.hit, last_closed_trade |-> s2.closed,
                  log_entry |-> s2.log]
      /\ UNCHANGED <<config, writer, reader, query, feed>>

NoTick ==
  [n |-> 0, signal |-> "", price |-> 0, atr |-> 0, utbot_stop |-> 0,
   gate |-> "not called", trail |-> "not called",
   pre |-> NewData, mid |-> NewData, step1_action |-> Missing, hit |-> NoHit,
   last_closed_trade |-> NoRecord, log_entry |-> NewLogEntry("", 0)]

\* no save under way, nothing read, no query made, no candle fetched
NoWriter ==
  [pc |-> "idle", n |-> 0, before |-> NewData, existed |-> FALSE,
   mem |-> NewData, torn |-> FALSE, writes |-> 0, result |-> "none",
   stage |-> "none"]
NoReader == [kind |-> "none", doc |-> NewData, n |-> 0]
NoQuery == [name |-> "none", calls |-> 0]
NoFeed == [pc |-> "none"]

Init ==
  /\ file_exists = FALSE
  /\ data = NewData
  /\ config \in Configs
  /\ tick = NoTick
  /\ writer = NoWriter /\ reader = NoReader
  /\ query = NoQuery /\ feed = NoFeed

Tick ==
  /\ tick.n < MaxTicks
  /\ \E raw \in RawSignals, price \in Prices, atr \in Atrs :
       IF Capitalize(raw) \in {"Buy", "Sell"}
         THEN \E utbot_stop \in UtbotStops, allowed \in BOOLEAN :
                update_demo_trade(raw, price, atr, utbot_stop, allowed)
         ELSE update_demo_trade(raw, price, atr, price, TRUE)

Next == Tick

Spec == Init /\ [][Next]_vars

\* ------------------------------------------------ one tick on any stored account
\* load_trades returns whatever document the file holds: step 1 is a
\* function of the stored position and the price.  SpecStored applies one
\* tick to every well-formed stored position (0 < amount <= original_amount)
\* of a three-level ladder: one whose percentages add up to 100 and one
\* whose percentages overshoot it, neither demo_trader.py nor the stored
\* document constraining the percentages of a level.
StoredLadder == <<50, 30, 20>>
OvershootLadder == <<60, 60, 20>>
StoredLadders == {StoredLadder, OvershootLadder}
StoredEntry(side) == IF side = "LONG" THEN 98 ELSE 102

HitPercent(levels) ==
  LET F[i \in 0..Len(levels)] ==
        IF i = 0 THEN 0
        ELSE F[i - 1] + (IF levels[i].hit THEN levels[i].percentage ELSE 0)
  IN  F[Len(levels)]

StoredLevels(side) ==
  { [i \in 1..3 |->
       [name |-> TPName(i),
        price |-> IF side = "LONG" THEN StoredEntry(side) + i
                  ELSE StoredEntry(side) - i,
        percentage |-> ladder[i],
        hit |-> h[i]]]
    : ladder \in StoredLadders,
      h \in {g \in [1..3 -> BOOLEAN] : \E i \in 1..3 : ~g[i]} }

StoredTradesOf(side) ==
  { [type |-> side, entry_price |-> StoredEntry(side),
     amount |-> 1230 - (1230 * HitPercent(lv)) \div 100,
     original_amount |-> 1230,
     stop_loss |-> sl, tp_levels |-> lv, atr_at_entry |-> 1,
     breakeven_moved |-> be]
    : sl \in {0, 98, 100, 102}, be \in BOOLEAN,
      lv \in {l \in StoredLevels(side) : HitPercent(l) < 100} }

StoredTrades == StoredTradesOf("LONG") \cup StoredTradesOf("SHORT")

InitStored ==
  /\ file_exists = TRUE
  /\ \E t \in StoredTrades : data = [NewData EXCEPT !.open_trade = t]
  /\ config \in Configs
  /\ tick = NoTick
  /\ writer = NoWriter /\ reader = NoReader
  /\ query = NoQuery /\ feed = NoFeed

TickStored ==
  /\ tick.n = 0
  /\ \E raw \in RawSignals, price \in Prices, atr \in Atrs :
       IF Capitalize(raw) \in {"Buy", "Sell"}
         THEN \E utbot_stop \in UtbotStops, allowed \in BOOLEAN :
                update_demo_trade(raw, price, atr, utbot_stop, allowed)
         ELSE update_demo_trade(raw, price, atr, price, TRUE)

NextStored == TickStored

SpecStored == InitStored /\ [][NextStored]_vars

\* --------------------------------------------- save_trades, step by step
\* A tick whose save is followed through open(TRADES_FILE, "w"), which
\* truncates the file, and json.dump, which writes the document in
\* pieces; either may raise.  data is the last document written in full,
\* writer.torn tells that the file holds less than a document, writer.mem
\* is the account in memory.  Ticks and readers are serialized: a reader
\* calls load_trades between two ticks, never while one is under way.
PersistSignals == {"buy", "Hold"}
PersistPrices == {99, 100}

\* lines 37-40: json.load of a truncated or partly written file raises
load_outcome ==
  IF ~file_exists THEN [kind |-> "doc", doc |-> NewData]
  ELSE IF writer.torn THEN [kind |-> "error", doc |-> NewData]
  ELSE [kind |-> "doc", doc |-> data]

\* lines 157-295: load and compute in memory; `raises` is an exception of
\* a step before save_trades (load_risk_config, a risk policy call)
TickBegin ==
  /\ writer.pc = "idle" /\ writer.n < MaxWrites
  /\ \E raw \in PersistSignals, price \in PersistPrices, raises \in BOOLEAN :
     \E signal \in {Capitalize(raw)}, lo \in {load_outcome} :
       IF lo.kind = "error"
         THEN writer' = [writer EXCEPT !.n = @ + 1, !.writes = 0,
                                        !.existed = file_exists,
                                        !.result = "exception", !.stage = "load"]
         ELSE \E s1 \in {Step1(lo.doc, signal, price, 1, config)} :
              \E s2 \in {Step2(s1, signal, price, 1, 100, TRUE, config)} :
                writer' =
                  IF raises
                    THEN [writer EXCEPT !.n = @ + 1, !.writes = 0,
                            !.before = lo.doc, !.mem = lo.doc,
                            !.existed = file_exists,
                            !.result = "exception", !.stage = "compute"]
                    ELSE [writer EXCEPT !.n = @ + 1, !.writes = 0,
                            !.before = lo.doc, !.existed = file_exists,
                            !.mem = [s2.d EXCEPT
                                       !.order_log = append_log_entry(@, s2.log)],
                            !.pc = "computed",
                            !.result = "none", !.stage = "save"]
  /\ UNCHANGED <<file_exists, data, config, tick, reader, query, feed>>

\* line 45: open(TRADES_FILE, "w") creates or truncates the file, or raises
SaveOpen ==
  /\ writer.pc = "computed"
  /\ \E ok \in BOOLEAN :
       IF ok
         THEN /\ file_exists' = TRUE
              /\ writer' = [writer EXCEPT !.pc = "opened", !.torn = TRUE,
                                           !.writes = @ + 1]
         ELSE /\ writer' = [writer EXCEPT !.pc = "idle", !.stage = "open",
                                           !.result = "exception"]
              /\ UNCHANGED file_exists
  /\ UNCHANGED <<data, config, tick, reader, query, feed>>

\* variant: the status summary is returned whatever became of the save
save_result_always_status(ok) == "status"

\* lines 297-309: save_trades is called outside any try; the status
\* summary is built and returned only if it did not raise
save_result(ok) == IF ok THEN "status" ELSE "exception"

\* line 46: json.dump writes the whole document, or raises part-way
SaveDump ==
  /\ writer.pc = "opened"
  /\ \E ok \in BOOLEAN :
       /\ data' = IF ok THEN writer.mem ELSE data
       /\ writer' = [writer EXCEPT !.pc = "idle", !.torn = ~ok,
                                    !.stage = IF ok THEN "done" ELSE "write",
                                    !.result = save_result(ok)]
  /\ UNCHANGED <<file_exists, config, tick, reader, query, feed>>

\* another call of load_trades (get_trade_history, get_order_log,
\* get_performance_summary) once the tick has returned or raised
Read ==
  /\ writer.pc = "idle"
  /\ reader' = [kind |-> load_outcome.kind, doc |-> load_outcome.doc,
                n |-> writer.n]
  /\ reader' # reader
  /\ UNCHANGED <<file_exists, data, config, tick, writer, query, feed>>

NextPersist == TickBegin \/ SaveOpen \/ SaveDump \/ Read

SpecPersist == Init /\ [][NextPersist]_vars

\* ------------------------------------------------------------- queries
\* calculate_live_pl and get_performance_summary are functions of the
\* account: SpecQuery applies them to stored accounts with every history of
\* up to three records whose profit is negative, zero or positive.
\* None is the empty sequence, a value v the sequence <<v>>.

\* variant: the profit is taken on the amount the position was opened with
live_amount_original(open_trade) == open_trade.original_amount

\* line 327
live_amount(open_trade) == open_trade.amount

\* lines 321-338
calculate_live_pl(open_trade, current_price) ==
  IF ~IsOpen(open_trade) THEN <<>>
  ELSE IF open_trade.type \in {"LONG", "SHORT"}
    THEN <<Round2(ProfitUsdt(open_trade, current_price, live_amount(open_trade))
                    * BTC_USDT_RATE)>>
  ELSE <<>>

\* variant: a record without profit counts as a win
is_winning_or_even(trade) == trade.profit_inr >= 0

\* line 355
is_winning(trade) == trade.profit_inr > 0

\* line 356
is_losing(trade) == trade.profit_inr < 0

SumProfit(history) ==
  LET F[k \in 0..Len(history)] ==
        IF k = 0 THEN 0 ELSE F[k - 1] + history[k].profit_inr
  IN  F[Len(history)]

\* lines 340-369; win_rate is counted in 1/Scale of a percent
get_performance_summary ==
  LET d == load_trades
      history == d.history
      total_trades == Len(history)
      winning_trades == Cardinality({k \in 1..Len(history) : is_winning(history[k])})
      losing_trades == Cardinality({k \in 1..Len(history) : is_losing(history[k])})
      win_rate == IF total_trades > 0
                    THEN (winning_trades * 100 * Scale) \div total_trades ELSE 0
  IN  IF history = <<>>
        THEN [total_trades |-> 0, winning_trades |-> 0, losing_trades |-> 0,
              total_profit_inr |-> 0, win_rate |-> 0,
              current_balance |-> <<>>, starting_balance |-> <<>>,
              total_return |-> <<>>]
        ELSE [total_trades |-> total_trades, winning_trades |-> winning_trades,
              losing_trades |-> losing_trades,
              total_profit_inr |-> Round2(SumProfit(history)),
              win_rate |-> Round2(win_rate),
              current_balance |-> <<Round2(d.balance)>>,
              starting_balance |-> <<START_BALANCE * Scale>>,
              total_return |-> <<Round2(d.balance - START_BALANCE * Scale)>>]

QueryProfits == {0 - 52300, 0, 52300}
QueryHistories ==
  UNION { [1..n -> [profit_inr : QueryProfits, partial : {FALSE}]] : n \in 0..3 }
QueryBalances == {START_BALANCE * Scale, START_BALANCE * Scale + 52275}
QueryTrades ==
  {NoTrade} \cup
  { [type |-> side, entry_price |-> 100, amount |-> a, original_amount |-> 1230,
     stop_loss |-> 100, tp_levels |-> <<>>, atr_at_entry |-> 1,
     breakeven_moved |-> TRUE] : side \in {"LONG", "SHORT"}, a \in {615, 1230} }

InitQuery ==
  /\ file_exists = TRUE
  /\ \E b \in QueryBalances, t \in QueryTrades, h \in QueryHistories :
       data = [NewData EXCEPT !.balance = b, !.open_trade = t, !.history = h]
  /\ config \in Configs
  /\ tick = NoTick
  /\ writer = NoWriter /\ reader = NoReader /\ feed = NoFeed
  /\ query = [name |-> "none", calls |-> 0, account |-> data]

LivePl ==
  /\ query.calls < MaxCalls
  /\ \E current_price \in Prices :
       query' = [name |-> "calculate_live_pl", calls |-> query.calls + 1,
                 account |-> query.account, price |-> current_price,
                 result |-> calculate_live_pl(data.open_trade, current_price)]
  /\ UNCHANGED <<file_exists, data, config, tick, writer, reader, feed>>

Summary ==
  /\ query.calls < MaxCalls
  /\ query' = [name |-> "get_performance_summary", calls |-> query.calls + 1,
               account |-> query.account, result |-> get_performance_summary]
  /\ UNCHANGED <<file_exists, data, config, tick, writer, reader, feed>>

NextQuery == LivePl \/ Summary

SpecQuery == InitQuery /\ [][NextQuery]_vars

\* ------------------------------------------------- utbot_logic.py: the feed
\* A candle source raises, returns an empty frame or returns candles.
\* SpecFeed draws the outcome of each of the five network sources and
\* applies fetch_btc_data and get_utbot_signal to it.
Outcomes == {"raise", "empty", "data"}
NetworkSources == 5
MockSource == NetworkSources + 1

\* lines 500-547: 350 candles built in memory, no input or output
fetch_from_mock_data == "data"

\* the outcome of source i of the list of lines 17-24
source_outcome(outcomes, i) ==
  IF i = MockSource THEN fetch_from_mock_data ELSE outcomes[i]

\* variant: whatever frame a source returns is taken
frame_accepted_if_returned(outcome) == outcome # "raise"

\* line 30: if not df.empty and len(df) > 0
frame_accepted(outcome) == outcome = "data"

\* lines 26-40: the sources are tried in order; attempted lists the calls
\* made, MockSource a second time for the call after the loop
fetch_btc_data(outcomes) ==
  LET F[i \in 1..(MockSource + 1)] ==
        IF i = MockSource + 1
          THEN [attempted |-> <<MockSource>>, source |-> MockSource,
                frame |-> fetch_from_mock_data]
        ELSE IF frame_accepted(source_outcome(outcomes, i))
          THEN [attempted |-> <<i>>, source |-> i, frame |-> "data"]
        ELSE [F[i + 1] EXCEPT !.attempted = <<i>> \o @]
  IN  F[1]

FeedPositions == {0 - 1, 0, 1}
FeedAtrs == {<<>>, <<0>>, <<1>>}
FeedPrice == 100
\* lines 649-650: the latest stop of each indicator; 0 is the stop 0.0 that
\* calc_utbot gives when a close equals keyvalue times the candle's range
FeedStops1 == {0, 101}
FeedStops2 == {0, 99}

\* line 682: the truth value of utbot_stop, None (<<>>) or a number
truthy(value) == value # <<>> /\ value[1] # 0

\* lines 639-696 on a frame of candles: pos1, pos2 are the latest pos and
\* stop1, stop2 the latest stop of the two indicators, atr_stable is None
\* (<<>>) or a value, raises tells that the computation raised
utbot_signal_of(frame, raises, pos1, pos2, stop1, stop2, atr_stable) ==
  IF frame = "empty"
    THEN [signal |-> "No Data", price |-> 0, atr |-> 0, utbot_stop |-> 0,
          data_source |-> "None"]
  ELSE IF raises
    THEN [signal |-> "Error", price |-> 0, atr |-> 0, utbot_stop |-> 0,
          data_source |-> "Error"]
  ELSE LET s2 == IF pos2 = 1 THEN "Buy" ELSE "Hold"
           latest_signal == IF pos1 = 0 - 1 THEN "Sell" ELSE s2
           stop_after_buy == IF pos2 = 1 THEN <<stop2>> ELSE <<>>
           utbot_stop == IF pos1 = 0 - 1 THEN <<stop1>> ELSE stop_after_buy
       IN  [signal |-> latest_signal, price |-> FeedPrice,
            atr |-> IF atr_stable = <<>> THEN 0 ELSE atr_stable[1],
            utbot_stop |-> IF truthy(utbot_stop) THEN utbot_stop[1]
                           ELSE FeedPrice,
            data_source |-> "Binance"]

InitFeed ==
  /\ file_exists = FALSE
  /\ data = NewData
  /\ config \in Configs
  /\ tick = NoTick
  /\ writer = NoWriter /\ reader = NoReader /\ query = NoQuery
  /\ \E o \in [1..NetworkSources -> Outcomes] :
       feed = [pc |-> "start", outcomes |-> o]

\* fetch_btc_data()
FetchBtcData ==
  /\ feed.pc = "start"
  /\ feed' = [pc |-> "fetched", outcomes |-> feed.outcomes,
              fetch |-> fetch_btc_data(feed.outcomes)]
  /\ UNCHANGED <<file_exists, data, config, tick, writer, reader, query>>

\* get_utbot_signal(), its call of fetch_btc_data included
GetUtbotSignal ==
  /\ feed.pc = "start"
  /\ \E raises \in BOOLEAN, pos1 \in FeedPositions, pos2 \in FeedPositions,
        stop1 \in FeedStops1, stop2 \in FeedStops2, atr_stable \in FeedAtrs :
     \E f \in {fetch_btc_data(feed.outcomes)} :
       feed' = [pc |-> "signalled", outcomes |-> feed.outcomes, fetch |-> f,
                raises |-> raises, pos1 |-> pos1, pos2 |-> pos2,
                stop1 |-> stop1, stop2 |-> stop2,
                result |-> utbot_signal_of(f.frame, raises, pos1, pos2,
                                           stop1, stop2, atr_stable)]
  /\ UNCHANGED <<file_exists, data, config, tick, writer, reader, query>>

NextFeed == FetchBtcData \/ GetUtbotSignal

SpecFeed == InitFeed /\ [][NextFeed]_vars

\* ======================================================== properties
\* tick.pre is the account the tick loaded, tick.mid the account after
\* step 1, data the account it saved.
Ticked == tick.n > 0
PrePos == tick.pre.open_trade
MidPos == tick.mid.open_trade

\* the history records step 1 appended, and those the whole tick appended
Step1Records ==
  SubSeq(tick.mid.history, Len(tick.pre.history) + 1, Len(tick.mid.history))
TickRecords ==
  SubSeq(data.history, Len(tick.pre.history) + 1, Len(data.history))

SameSideSignal(pos) ==
  \/ tick.signal = "Buy" /\ pos.type = "LONG"
  \/ tick.signal = "Sell" /\ pos.type = "SHORT"

OppositeSignal(pos) ==
  \/ tick.signal = "Buy" /\ pos.type = "SHORT"
  \/ tick.signal = "Sell" /\ pos.type = "LONG"

\* the stop condition of section 4.2, step 1
StopReached(pos, p) ==
  /\ pos.type \in {"LONG", "SHORT"}
  /\ pos.stop_loss # 0
  /\ IF pos.type = "LONG" THEN p <= pos.stop_loss ELSE p >= pos.stop_loss

\* the unhit levels whose price has been crossed in the profit direction
CrossedUnhit(pos, p) ==
  {i \in 1..Len(pos.tp_levels) :
     /\ ~pos.tp_levels[i].hit
     /\ IF pos.type = "LONG" THEN p >= pos.tp_levels[i].price
        ELSE p <= pos.tp_levels[i].price}

Unhit(pos) == {i \in 1..Len(pos.tp_levels) : ~pos.tp_levels[i].hit}

Lowest(S) == CHOOSE i \in S : \A j \in S : i <= j

\* the tick's step 1 is a take-profit step
TakeProfitCase ==
  /\ Ticked
  /\ PrePos.type \in {"LONG", "SHORT"}
  /\ ~StopReached(PrePos, tick.price)
  /\ CrossedUnhit(PrePos, tick.price) # {}

\* unrounded profit of closing amt of pos at price p, in account currency
Profit(pos, p, amt) ==
  (IF pos.type = "LONG" THEN p - pos.entry_price ELSE pos.entry_price - p)
    * amt * BTC_USDT_RATE

\* the tick's price and ATR are positive and so were those the loaded
\* position was opened with
ValidInputs ==
  /\ tick.price > 0 /\ tick.atr > 0
  /\ PrePos.type # "NONE" => PrePos.entry_price > 0 /\ PrePos.atr_at_entry > 0

\* ---- C1
\* C1 as claimed: every tick that processes a Buy while a LONG is open at
\* the start of the tick (Sell while SHORT) keeps the entry price, appends
\* no history record and logs IGNORED, whatever the price (stated for
\* ticks with valid inputs).
C1_AsClaimed ==
  (Ticked /\ ValidInputs /\ SameSideSignal(PrePos)) =>
     /\ data.open_trade.entry_price = PrePos.entry_price
     /\ data.history = tick.pre.history
     /\ tick.log_entry.action = "IGNORED"

\* C1 amended: when a Buy is processed while a LONG is still open after
\* step 1 of the tick and the risk gate allows (Sell while SHORT), step 2
\* changes nothing (position, entry price, history and balance are as step 1
\* left them) and the tick's log entry has action IGNORED.
C1_RepeatedSignalIgnored ==
  (Ticked /\ SameSideSignal(MidPos) /\ tick.gate = "allowed") =>
     /\ data.open_trade = MidPos
     /\ data.open_trade.entry_price = MidPos.entry_price
     /\ data.history = tick.mid.history
     /\ data.balance = tick.mid.balance
     /\ tick.log_entry.action = "IGNORED"
     /\ Last(data.order_log).action = "IGNORED"

C1_Witness ==
  /\ Ticked /\ SameSideSignal(MidPos) /\ tick.gate = "allowed"
  /\ tick.price # MidPos.entry_price
  /\ tick.log_entry.action = "IGNORED"

\* ---- C2
\* C2: a tick whose normalised signal is not Buy, Sell or Hold leaves
\* balance, open position, history and order_log of the store as loaded.
C2_InvalidSignalRejected ==
  (Ticked /\ tick.signal \notin {"Buy", "Sell", "Hold"}) =>
     /\ data.balance = tick.pre.balance
     /\ data.open_trade = tick.pre.open_trade
     /\ data.history = tick.pre.history
     /\ data.order_log = tick.pre.order_log

\* ---- C3
\* C3: a tick whose price or ATR is zero or negative closes and opens
\* nothing, leaves balance and history unchanged and persists nothing.
C3_NonPositiveInputRejected ==
  (Ticked /\ (tick.price <= 0 \/ tick.atr <= 0)) =>
     /\ data.balance = tick.pre.balance
     /\ data.open_trade = tick.pre.open_trade
     /\ data.history = tick.pre.history
     /\ data.order_log = tick.pre.order_log

\* ---- C4
Step1StopClose ==
  /\ Len(Step1Records) = 1
  /\ ~Step1Records[1].partial
  /\ Step1Records[1].exit_reason = "Stop-Loss Hit"
  /\ MidPos.type = "NONE"

Step1TakeProfit ==
  /\ Len(Step1Records) >= 1
  /\ Step1Records[1].partial

Step1TrailingUpdate ==
  /\ Step1Records = <<>>
  /\ tick.mid.balance = tick.pre.balance
  /\ MidPos.stop_loss # PrePos.stop_loss
  /\ MidPos = [PrePos EXCEPT !.stop_loss = MidPos.stop_loss]

Step1NoOp ==
  /\ Step1Records = <<>>
  /\ tick.mid.balance = tick.pre.balance
  /\ MidPos = PrePos

Count(b) == IF b THEN 1 ELSE 0

\* C4: step 1 of a tick with an open position does exactly one of
\* stop-loss close, take-profit partial close, trailing-stop update, nothing;
\* when the price meets the stop condition the outcome is the stop-loss
\* close, also when a take-profit level is crossed as well, and then no
\* level is marked hit.
C4_ExactlyOneStopFirst ==
  (Ticked /\ PrePos.type \in {"LONG", "SHORT"}) =>
     /\ Count(Step1StopClose) + Count(Step1TakeProfit)
          + Count(Step1TrailingUpdate) + Count(Step1NoOp) = 1
     /\ StopReached(PrePos, tick.price) =>
          /\ Step1StopClose
          /\ Len(Step1Records[1].tp_levels_hit)
               = Cardinality({i \in 1..Len(PrePos.tp_levels) : PrePos.tp_levels[i].hit})
     /\ Step1StopClose => StopReached(PrePos, tick.price)

C4_Witness ==
  /\ Ticked /\ PrePos.type \in {"LONG", "SHORT"}
  /\ StopReached(PrePos, tick.price)
  /\ CrossedUnhit(PrePos, tick.price) # {}
  /\ Step1StopClose

\* ---- C5
\* C5 as claimed: a tick whose price meets the stop condition appends exactly
\* one history record (non-partial, "Stop-Loss Hit", exit at the tick price,
\* the remaining amount), changes the balance by that record's profit, and
\* on Hold leaves no position (stated for ticks with valid inputs).
C5_AsClaimed ==
  (Ticked /\ ValidInputs /\ StopReached(PrePos, tick.price)) =>
     /\ Len(TickRecords) = 1
     /\ ~TickRecords[1].partial
     /\ TickRecords[1].exit_reason = "Stop-Loss Hit"
     /\ TickRecords[1].exit_price = tick.price
     /\ TickRecords[1].amount = PrePos.amount
     /\ data.balance - tick.pre.balance = TickRecords[1].profit_inr
     /\ tick.signal = "Hold" => data.open_trade.type = "NONE"

\* C5 amended: ... changes the balance by the unrounded profit
\* (price - entry) * amount * rate of the close (sign reversed for a SHORT),
\* of which the record's profit is the value rounded to two decimals ...
C5_StopLossExit ==
  (Ticked /\ StopReached(PrePos, tick.price)) =>
     /\ Len(TickRecords) = 1
     /\ ~TickRecords[1].partial
     /\ TickRecords[1].exit_reason = "Stop-Loss Hit"
     /\ TickRecords[1].exit_price = tick.price
     /\ TickRecords[1].amount = PrePos.amount
     /\ data.balance - tick.pre.balance = Profit(PrePos, tick.price, PrePos.amount)
     /\ TickRecords[1].profit_inr = Round2(Profit(PrePos, tick.price, PrePos.amount))
     /\ tick.signal = "Hold" => data.open_trade.type = "NONE"

C5_Witness ==
  /\ Ticked /\ StopReached(PrePos, tick.price)
  /\ tick.price > 0 /\ tick.price # PrePos.stop_loss
  /\ tick.signal = "Hold"
  /\ Len(TickRecords) = 1
  /\ TickRecords[1].exit_reason = "Stop-Loss Hit"
  /\ data.balance < tick.pre.balance

\* ---- C6
PartialCount(recs) == Cardinality({k \in 1..Len(recs) : recs[k].partial})

\* C6: in a take-profit step exactly one level is processed, the
\* lowest-index unhit level that is crossed: it is marked hit, the share
\* percentage/100 of original_amount is taken off the amount, the profit is
\* that of this share at the tick price, and one partial record is appended.
C6_TakeProfitPartialClose ==
  TakeProfitCase =>
    LET i == Lowest(CrossedUnhit(PrePos, tick.price))
        amt == (PrePos.original_amount * PrePos.tp_levels[i].percentage) \div 100
        rec == Step1Records[1]
    IN  /\ Len(Step1Records) >= 1
        /\ PartialCount(Step1Records) = 1
        /\ rec.partial
        /\ rec.tp_name = PrePos.tp_levels[i].name
        /\ rec.tp_level = PrePos.tp_levels[i].price
        /\ rec.exit_price = tick.price
        /\ rec.amount_closed = Round6(amt)
        /\ rec.profit_inr = Round2(Profit(PrePos, tick.price, amt))
        /\ tick.mid.balance - tick.pre.balance
             = Profit(PrePos, tick.price, amt)
               + (IF Len(Step1Records) = 2
                    THEN Profit(PrePos, tick.price, PrePos.amount - amt) ELSE 0)
        /\ IF MidPos.type # "NONE"
             THEN /\ MidPos.amount = PrePos.amount - amt
                  /\ MidPos.original_amount = PrePos.original_amount
                  /\ \A j \in 1..Len(PrePos.tp_levels) :
                       MidPos.tp_levels[j].hit = (PrePos.tp_levels[j].hit \/ j = i)
             ELSE /\ Len(Step1Records) = 2
                  /\ Step1Records[2].amount = PrePos.amount - amt
                  /\ Unhit(PrePos) = {i}

\* the price has crossed two unhit levels and only the first was processed
C6_Witness ==
  /\ TakeProfitCase
  /\ Cardinality(CrossedUnhit(PrePos, tick.price)) = 2
  /\ MidPos.type # "NONE"
  /\ MidPos.tp_levels[1].hit /\ ~MidPos.tp_levels[2].hit
  /\ MidPos.amount < PrePos.amount

\* a second-level partial close, where original and remaining amount differ
C6_SecondLevelWitness ==
  /\ TakeProfitCase
  /\ PrePos.amount < PrePos.original_amount
  /\ Step1Records[1].amount_closed = Round6(PrePos.original_amount \div 2)

\* ---- C7
\* C7: the tick that hits the last unhit take-profit level appends the
\* partial record of that level and then a non-partial "All TPs Hit" record
\* (two records in the tick), leaves no position after step 1, and no stored
\* position ever has all its levels hit.
C7_AutoCloseAfterLastTP ==
  /\ (TakeProfitCase /\ Unhit(PrePos) \subseteq CrossedUnhit(PrePos, tick.price)
        /\ Cardinality(Unhit(PrePos)) = 1) =>
       /\ Len(Step1Records) = 2
       /\ Step1Records[1].partial
       /\ ~Step1Records[2].partial
       /\ Step1Records[2].exit_reason = "All TPs Hit"
       /\ Step1Records[2].exit_price = tick.price
       /\ MidPos.type = "NONE"
       /\ Len(TickRecords) = 2
  /\ data.open_trade.type # "NONE" => Unhit(data.open_trade) # {}

C7_Witness ==
  /\ TakeProfitCase
  /\ Cardinality(Unhit(PrePos)) = 1
  /\ Len(TickRecords) = 2
  /\ TickRecords[2].exit_reason = "All TPs Hit"
  /\ MidPos.type = "NONE"

\* ---- C8
\* C8: a take-profit step on level index 0 of a position that has a stop
\* puts the stop at the entry price and sets breakeven_moved; a take-profit
\* step on any other level (or without a stop) leaves stop and flag alone.
C8_BreakevenMove ==
  (TakeProfitCase /\ MidPos.type # "NONE") =>
    IF Lowest(CrossedUnhit(PrePos, tick.price)) = 1 /\ PrePos.stop_loss # 0
      THEN /\ MidPos.stop_loss = PrePos.entry_price
           /\ MidPos.breakeven_moved
      ELSE /\ MidPos.stop_loss = PrePos.stop_loss
           /\ MidPos.breakeven_moved = PrePos.breakeven_moved

C8_Witness ==
  /\ TakeProfitCase /\ MidPos.type # "NONE"
  /\ Lowest(CrossedUnhit(PrePos, tick.price)) = 1
  /\ PrePos.stop_loss # 0 /\ PrePos.stop_loss # PrePos.entry_price
  /\ ~PrePos.breakeven_moved
  /\ MidPos.stop_loss = PrePos.entry_price /\ MidPos.breakeven_moved

\* a later level is hit and the stop, which is not at the entry, stays
C8_LaterLevelWitness ==
  /\ TakeProfitCase /\ MidPos.type # "NONE"
  /\ Lowest(CrossedUnhit(PrePos, tick.price)) > 1
  /\ PrePos.stop_loss # 0 /\ PrePos.stop_loss # PrePos.entry_price
  /\ MidPos.stop_loss = PrePos.stop_loss

\* ---- C9
\* C9: a Buy that finds a SHORT open after step 1, the gate allowing, first
\* appends the non-partial "Opposite Signal" record of the SHORT, closed at
\* the tick price, and then opens a LONG whose entry price is the tick price;
\* symmetrically for Sell on a LONG.
C9_ReversalInOneTick ==
  (Ticked /\ OppositeSignal(MidPos) /\ tick.gate = "allowed") =>
     /\ Len(data.history) = Len(tick.mid.history) + 1
     /\ SubSeq(data.history, 1, Len(tick.mid.history)) = tick.mid.history
     /\ ~Last(data.history).partial
     /\ Last(data.history).exit_reason = "Opposite Signal"
     /\ Last(data.history).type = MidPos.type
     /\ Last(data.history).entry_price = MidPos.entry_price
     /\ Last(data.history).amount = MidPos.amount
     /\ Last(data.history).exit_price = tick.price
     /\ data.balance = tick.mid.balance + Profit(MidPos, tick.price, MidPos.amount)
     /\ data.open_trade.type = (IF tick.signal = "Buy" THEN "LONG" ELSE "SHORT")
     /\ data.open_trade.entry_price = tick.price
     /\ ~data.open_trade.breakeven_moved

C9_Witness ==
  /\ Ticked /\ tick.signal = "Buy" /\ MidPos.type = "SHORT"
  /\ tick.gate = "allowed"
  /\ tick.price # MidPos.entry_price
  /\ data.open_trade.type = "LONG"
  /\ Last(data.history).exit_reason = "Opposite Signal"

\* ---- C10
ClosureActions ==
  {"STOP_LOSS", "TP1_HIT", "TP2_HIT", "TP3_HIT", "CLOSE_SHORT", "CLOSE_LONG"}

\* step 2 acted: it opened a position
Step2Opened ==
  /\ tick.signal \in {"Buy", "Sell"} /\ tick.gate = "allowed"
  /\ data.open_trade.type # "NONE" /\ data.open_trade # MidPos

\* C10: when a tick closes a position (stop-loss, take-profit or opposite
\* signal) and step 2 also acts, the tick's log entry still carries the
\* closure action; closing a SHORT on a Buy records CLOSE_SHORT.
C10_ClosureActionLogged ==
  (Ticked /\ Step2Opened /\ Len(TickRecords) > 0) =>
     /\ Last(data.order_log).action \in ClosureActions
     /\ (tick.signal = "Buy" /\ MidPos.type = "SHORT" /\ tick.gate = "allowed")
          => Last(data.order_log).action = "CLOSE_SHORT"

\* ---- C11
\* the tick's step 2 opened a position
OpenedInTick ==
  \/ IsOpen(data.open_trade) /\ data.open_trade # MidPos
  \/ tick.log_entry.action \in {"OPEN_LONG", "OPEN_SHORT"}

\* C11: on a Buy or Sell tick the risk gate is consulted; when it does not
\* allow, the log action is BLOCKED and step 2 neither opens, closes nor
\* resizes anything (position, history and balance are as step 1 left them,
\* an opposite-side position included); a position is opened only in a tick
\* whose gate allowed.
C11_RiskGate ==
  Ticked =>
     /\ tick.signal \in {"Buy", "Sell"} => tick.gate \in {"allowed", "blocked"}
     /\ tick.gate = "blocked" =>
          /\ tick.log_entry.action = "BLOCKED"
          /\ Last(data.order_log).action = "BLOCKED"
          /\ data.open_trade = MidPos
          /\ data.history = tick.mid.history
          /\ data.balance = tick.mid.balance
     /\ OpenedInTick => tick.gate = "allowed"

\* a refused signal that would otherwise have reversed an open position
C11_Witness ==
  /\ Ticked /\ tick.gate = "blocked"
  /\ OppositeSignal(MidPos)
  /\ data.open_trade = MidPos
  /\ Last(data.order_log).action = "BLOCKED"

\* ---- C12
SideOf(signal) == IF signal = "Buy" THEN "LONG" ELSE "SHORT"

\* a Buy or Sell tick on an account that holds no position, gate allowing
OpenFromFlat ==
  /\ Ticked /\ tick.signal \in {"Buy", "Sell"}
  /\ PrePos.type = "NONE" /\ tick.gate = "allowed"

\* C12: a Buy on a flat account with an allowing gate leaves a LONG whose
\* entry price is the tick's price, whose amount and original_amount are
\* the size computed for the balance, whose stop and take-profit levels are
\* those the risk policy returns, with breakeven_moved false; balance and
\* history are unchanged and one log entry with action OPEN_LONG is
\* appended.  A Sell is symmetric (SHORT, OPEN_SHORT).
C12_OpenFromFlat ==
  OpenFromFlat =>
    LET side == SideOf(tick.signal)
        t == data.open_trade
    IN  /\ t.type = side
        /\ t.entry_price = tick.price
        /\ t.amount = calculate_position_size(tick.pre.balance, config)
        /\ t.original_amount = t.amount
        /\ t.stop_loss =
             calculate_stop_loss(tick.price, side, tick.atr, tick.utbot_stop, config)
        /\ t.tp_levels =
             calculate_take_profit_levels(tick.price, side, tick.atr, config)
        /\ ~t.breakeven_moved
        /\ \A i \in 1..Len(t.tp_levels) : ~t.tp_levels[i].hit
        /\ data.balance = tick.pre.balance
        /\ data.history = tick.pre.history
        /\ Len(data.order_log) = Len(tick.pre.order_log) + 1
        /\ SubSeq(data.order_log, 1, Len(tick.pre.order_log)) = tick.pre.order_log
        /\ Last(data.order_log).action = "OPEN_" \o side

\* a SHORT opened from flat at a price that differs from the indicator's stop
C12_Witness ==
  /\ OpenFromFlat /\ tick.signal = "Sell"
  /\ tick.price # tick.utbot_stop
  /\ data.open_trade.type = "SHORT"
  /\ Last(data.order_log).action = "OPEN_SHORT"

\* ---- C13
\* the index in data.history of the tick's full-close record, 0 if none
FullCloseIndex ==
  LET S == {k \in Len(tick.pre.history) + 1 .. Len(data.history) :
              ~data.history[k].partial}
  IN  IF S = {} THEN 0 ELSE CHOOSE k \in S : TRUE

\* sum of amount_closed over the partial records that directly precede
\* record k of h: the partial records of the position that record k closes
PartialRunSum(h, k) ==
  LET F[j \in 0..(k - 1)] ==
        IF j = 0 THEN 0
        ELSE IF h[j].partial THEN F[j - 1] + h[j].amount_closed ELSE 0
  IN  F[k - 1]

\* the share of original_amount that level i of pos takes off
ShareOf(pos, i) == (pos.original_amount * pos.tp_levels[i].percentage) \div 100

\* sum of the shares of the levels of pos whose name is in names
SharesNamed(pos, names) ==
  LET F[i \in 0..Len(pos.tp_levels)] ==
        IF i = 0 THEN 0
        ELSE F[i - 1] +
             (IF \E n \in 1..Len(names) : names[n] = pos.tp_levels[i].name
                THEN ShareOf(pos, i) ELSE 0)
  IN  F[Len(pos.tp_levels)]

\* sum of the shares of the levels of pos that are marked hit
SharesHit(pos) == SharesNamed(pos, HitNames(pos.tp_levels))

\* C13 as claimed: a partial close never raises the amount, and when a
\* tick closes the loaded position in full, the amount_closed fields of
\* its partial records plus the amount of the full-close record add up to
\* its original_amount (stated for ticks with valid inputs).
C13_AsClaimed ==
  (Ticked /\ ValidInputs /\ IsOpen(PrePos)) =>
     /\ IsOpen(MidPos) => MidPos.amount <= PrePos.amount
     /\ FullCloseIndex # 0 =>
          PartialRunSum(data.history, FullCloseIndex)
            + data.history[FullCloseIndex].amount = PrePos.original_amount

\* C13 amended: a partial close takes the level's share
\* original_amount * percentage / 100 off the amount and never raises it;
\* the shares taken off plus the amount still open equal original_amount,
\* and when the position is closed in full the shares of the levels listed
\* in the record's tp_levels_hit plus the record's amount equal
\* original_amount.  Each partial record stores its share rounded to six
\* decimals, so the record fields add up to original_amount only up to
\* that rounding.
C13_Conservation ==
  /\ IsOpen(data.open_trade) =>
       data.open_trade.amount + SharesHit(data.open_trade)
         = data.open_trade.original_amount
  /\ (Ticked /\ IsOpen(PrePos)) =>
       /\ IsOpen(MidPos) => MidPos.amount <= PrePos.amount
       /\ \A k \in 1..Len(Step1Records) :
            Step1Records[k].partial =>
              /\ CrossedUnhit(PrePos, tick.price) # {}
              /\ Step1Records[k].amount_closed =
                   Round6(ShareOf(PrePos, Lowest(CrossedUnhit(PrePos, tick.price))))
       /\ FullCloseIndex # 0 =>
            LET rec == data.history[FullCloseIndex]
            IN  rec.amount + SharesNamed(PrePos, rec.tp_levels_hit)
                  = PrePos.original_amount

\* a position closed in full after a partial close whose recorded
\* amount_closed is not the share that was taken off
C13_Witness ==
  /\ Ticked /\ IsOpen(PrePos) /\ FullCloseIndex # 0
  /\ PartialRunSum(data.history, FullCloseIndex) > 0
  /\ PartialRunSum(data.history, FullCloseIndex)
       + data.history[FullCloseIndex].amount # PrePos.original_amount

\* ---- C14
\* the loaded position is still the open one: no full close in the tick
SamePositionOpen ==
  /\ Ticked /\ IsOpen(PrePos) /\ IsOpen(data.open_trade)
  /\ FullCloseIndex = 0

\* C14: an open position has 0 < amount <= original_amount and its
\* original_amount never changes; whatever the percentages of the ladder,
\* no partial close takes the amount below zero and no full-close record
\* has a negative amount (stated for ticks with valid inputs).
C14_AmountInRange ==
  (Ticked /\ ValidInputs) =>
     /\ IsOpen(data.open_trade) =>
          /\ 0 < data.open_trade.amount
          /\ data.open_trade.amount <= data.open_trade.original_amount
     /\ SamePositionOpen =>
          data.open_trade.original_amount = PrePos.original_amount
     /\ (IsOpen(PrePos) /\ IsOpen(MidPos)) => MidPos.amount >= 0
     /\ \A k \in 1..Len(data.history) :
          ~data.history[k].partial => data.history[k].amount >= 0

\* ---- C15
\* C15: while the same position stays open over a tick, the stop of a
\* LONG does not decrease and the stop of a SHORT does not increase,
\* through the breakeven move and every trailing update.
C15_StopOnlyTightens ==
  SamePositionOpen =>
     /\ data.open_trade.type = PrePos.type
     /\ PrePos.type = "LONG" => data.open_trade.stop_loss >= PrePos.stop_loss
     /\ PrePos.type = "SHORT" => data.open_trade.stop_loss <= PrePos.stop_loss

\* a trailing update after the breakeven move tightened the stop
C15_Witness ==
  /\ SamePositionOpen /\ tick.trail = "updated"
  /\ PrePos.breakeven_moved /\ PrePos.stop_loss = PrePos.entry_price
  /\ data.open_trade.stop_loss # PrePos.stop_loss

\* ---- C16
\* C16: a position opened by a tick has its stop on the loss side of its
\* entry price, below it for a LONG and above it for a SHORT, whatever
\* the ATR and the indicator's stop price.
C16_StopOnLossSide ==
  (Ticked /\ Step2Opened) =>
     /\ data.open_trade.stop_loss # 0
     /\ data.open_trade.type = "LONG" =>
          data.open_trade.stop_loss < data.open_trade.entry_price
     /\ data.open_trade.type = "SHORT" =>
          data.open_trade.stop_loss > data.open_trade.entry_price

\* a LONG opened while the indicator's stop lies above the price
C16_Witness ==
  /\ Ticked /\ Step2Opened /\ tick.price > 0 /\ tick.atr > 0
  /\ data.open_trade.type = "LONG"
  /\ tick.utbot_stop > tick.price
  /\ data.open_trade.stop_loss < tick.price

\* ---- C17
\* C17: update_trailing_stop is called only for an open position that hit
\* neither its stop nor a take-profit in this tick, whose breakeven move
\* has been made, with trailing enabled; when it yields a new stop, step 1
\* changes the stop only: balance, history, amount, entry price and the
\* hit flags are untouched and no trade record is appended.
C17_TrailingGatedStopOnly ==
  (Ticked /\ tick.trail # "not called") =>
     /\ IsOpen(PrePos)
     /\ ~StopReached(PrePos, tick.price)
     /\ CrossedUnhit(PrePos, tick.price) = {}
     /\ PrePos.breakeven_moved
     /\ config.trailing_enabled
     /\ Step1Records = <<>>
     /\ tick.mid.balance = tick.pre.balance
     /\ tick.mid.history = tick.pre.history
     /\ MidPos = [PrePos EXCEPT !.stop_loss = MidPos.stop_loss]
     /\ tick.trail = "none" => MidPos = PrePos
     /\ tick.trail = "updated" => tick.step1_action = "TRAILING_STOP_UPDATE"

\* step 1 changed the stop and nothing else
C17_Witness ==
  /\ Ticked /\ tick.trail = "updated"
  /\ MidPos.stop_loss # PrePos.stop_loss
  /\ MidPos.amount = PrePos.amount
  /\ tick.mid.history = tick.pre.history

\* ---- C18
\* step 1 changed the store
Step1Acted ==
  \/ MidPos # PrePos
  \/ tick.mid.balance # tick.pre.balance
  \/ tick.mid.history # tick.pre.history

\* C18: a Hold tick opens and closes nothing in step 2; if step 1 did
\* nothing, balance, position and history are as loaded and the one log
\* entry appended has action HOLD; if step 1 acted, the log entry keeps
\* the action of step 1.
C18_HoldChangesNothing ==
  (Ticked /\ tick.signal = "Hold") =>
     /\ data.open_trade = MidPos
     /\ data.balance = tick.mid.balance
     /\ data.history = tick.mid.history
     /\ data.order_log = Append(tick.pre.order_log, tick.log_entry)
     /\ ~Step1Acted =>
          /\ data.open_trade = PrePos
          /\ data.balance = tick.pre.balance
          /\ data.history = tick.pre.history
          /\ tick.log_entry.action = "HOLD"
     /\ Step1Acted =>
          /\ tick.log_entry.action \in
               {"STOP_LOSS", "TP1_HIT", "TP2_HIT", "TP3_HIT", "TRAILING_STOP_UPDATE"}
          /\ Step1StopClose => tick.log_entry.action = "STOP_LOSS"
          /\ Step1TakeProfit =>
               tick.log_entry.action = Step1Records[1].tp_name \o "_HIT"
          /\ Step1TrailingUpdate =>
               tick.log_entry.action = "TRAILING_STOP_UPDATE"

\* a Hold tick whose step 1 closed part of the position
C18_Witness ==
  /\ Ticked /\ tick.signal = "Hold" /\ Step1Acted
  /\ Step1TakeProfit
  /\ IsOpen(data.open_trade)
  /\ tick.log_entry.action = "TP1_HIT"

\* ---- C19
ValidSignals == {"Buy", "Sell", "Hold"}

\* C19: from the empty store, after n ticks order_log holds n entries in
\* tick order: each tick appends its one entry after the entries it found,
\* which it leaves as they were, and the entry of every Buy, Sell or Hold
\* tick carries an action tag.
C19_OneLogEntryPerTick ==
  /\ Len(data.order_log) = tick.n
  /\ Ticked =>
       /\ Len(tick.pre.order_log) = tick.n - 1
       /\ SubSeq(data.order_log, 1, tick.n - 1) = tick.pre.order_log
       /\ data.order_log[tick.n] = tick.log_entry
       /\ data.order_log[tick.n].side = tick.signal
  /\ \A k \in 1..Len(data.order_log) :
       data.order_log[k].side \in ValidSignals =>
         data.order_log[k].action # Missing

\* three ticks with valid signals: an opening, a take-profit, a hold
C19_Witness ==
  /\ tick.n = 3 /\ Len(data.order_log) = 3
  /\ \A k \in 1..3 : data.order_log[k].side \in ValidSignals
  /\ data.order_log[1].action = "OPEN_LONG"
  /\ data.order_log[2].action = "TP1_HIT"
  /\ data.order_log[3].action = "HOLD"

\* ---- C20
\* C20: the store holds one position slot; while a position stays open
\* its side does not change, and a position of the other side is found
\* after a tick only if that tick appended a non-partial history record
\* closing the position that was loaded.
C20_SinglePositionSide ==
  (Ticked /\ IsOpen(PrePos)) =>
     /\ FullCloseIndex = 0 =>
          /\ IsOpen(data.open_trade)
          /\ data.open_trade.type = PrePos.type
          /\ data.open_trade.entry_price = PrePos.entry_price
     /\ (IsOpen(data.open_trade) /\ data.open_trade.type # PrePos.type) =>
          /\ FullCloseIndex # 0
          /\ data.history[FullCloseIndex].type = PrePos.type
          /\ data.history[FullCloseIndex].entry_price = PrePos.entry_price
          /\ ~data.history[FullCloseIndex].partial
     /\ Cardinality({k \in Len(tick.pre.history) + 1 .. Len(data.history) :
                       ~data.history[k].partial}) <= 1

\* a SHORT replaced by a LONG in one tick, the SHORT's full-close record
\* being in the history
C20_Witness ==
  /\ Ticked /\ PrePos.type = "SHORT" /\ data.open_trade.type = "LONG"
  /\ FullCloseIndex # 0
  /\ data.history[FullCloseIndex].type = "SHORT"
  /\ data.history[FullCloseIndex].exit_reason = "Opposite Signal"

\* ---- C21
\* C21: whoever loads the store finds a complete account, never a failure
\* and never a half-written file: the account as it was before the tick
\* under way or as that tick leaves it, also after a save that failed
\* part-way.
C21_AtomicPersistence ==
  /\ reader.kind # "error"
  /\ (reader.kind = "doc" /\ reader.n = writer.n) =>
       reader.doc \in {writer.before, writer.mem}

\* ---- C22
\* C22: a tick reads the store once, at its start, and writes it at most
\* once, as its last step; a status summary is returned only after the
\* write went through (the file then holds the account computed in memory);
\* a failed write ends the tick with the exception, and a tick that fails
\* before the write leaves the file as it found it.
C22_FailedPersistNotSuccess ==
  /\ writer.writes <= 1
  /\ writer.result = "status" =>
       /\ writer.stage = "done" /\ writer.writes = 1 /\ writer.pc = "idle"
       /\ file_exists /\ ~writer.torn /\ data = writer.mem
  /\ writer.stage = "write" =>
       writer.result = "exception" /\ writer.pc = "idle"
  /\ writer.stage \in {"load", "compute", "open"} =>
       /\ writer.result = "exception" /\ writer.writes = 0
       /\ file_exists = writer.existed
       /\ (file_exists /\ ~writer.torn) => data = writer.before

\* a save that failed part-way, and a tick that failed before its save
\* on a store that an earlier tick had written
C22_Witness ==
  /\ writer.stage = "write" /\ writer.result = "exception" /\ writer.torn
  /\ writer.mem # writer.before

C22_WitnessBeforeWrite ==
  /\ writer.stage = "compute" /\ writer.n = 2
  /\ file_exists /\ ~writer.torn /\ data = writer.before
  /\ data # NewData

\* ---- C23
\* C23: calculate_live_pl returns None when no position is open, else the
\* profit of closing the position's current amount at the given price, in
\* account currency to two decimals; every call returns that value and
\* leaves position, balance, history and order_log as they were.
C23_LivePlPure ==
  query.name = "calculate_live_pl" =>
     /\ data = query.account
     /\ ~IsOpen(data.open_trade) => query.result = <<>>
     /\ IsOpen(data.open_trade) =>
          query.result =
            <<RoundTo(Profit(data.open_trade, query.price, data.open_trade.amount),
                      Cent)>>

\* a second call on a position part of which has been closed
C23_Witness ==
  /\ query.name = "calculate_live_pl" /\ query.calls = 2
  /\ IsOpen(data.open_trade)
  /\ data.open_trade.amount < data.open_trade.original_amount
  /\ query.result # <<0>>

\* ---- C24
Wins(history) == {k \in 1..Len(history) : history[k].profit_inr > 0}
Losses(history) == {k \in 1..Len(history) : history[k].profit_inr < 0}

\* C24: get_performance_summary counts a record as winning iff its
\* profit_inr is > 0 and as losing iff it is < 0, a record without profit
\* as neither; total_trades is the number of history records; win_rate is
\* winning / total * 100 (to two decimals), and 0 for the empty history.
C24_PerformanceClassification ==
  query.name = "get_performance_summary" =>
     LET r == query.result
         h == data.history
     IN  /\ data = query.account
         /\ r.total_trades = Len(h)
         /\ r.winning_trades = Cardinality(Wins(h))
         /\ r.losing_trades = Cardinality(Losses(h))
         /\ r.winning_trades + r.losing_trades <= r.total_trades
         /\ h = <<>> => r.win_rate = 0
         /\ h # <<>> =>
              r.win_rate =
                RoundTo((Cardinality(Wins(h)) * 100 * Scale) \div Len(h), Cent)

\* a history with a win, a loss and a record without profit
C24_Witness ==
  /\ query.name = "get_performance_summary"
  /\ Len(data.history) = 3
  /\ Cardinality(Wins(data.history)) = 1
  /\ Cardinality(Losses(data.history)) = 1
  /\ query.result.winning_trades + query.result.losing_trades = 2

\* ---- C25
\* C25: for every account, the empty history included, the summary
\* carries current_balance, starting_balance and total_return, and
\* total_return is current_balance minus starting_balance.
C25_SummaryFields ==
  query.name = "get_performance_summary" =>
     LET r == query.result
     IN  /\ Len(r.current_balance) = 1
         /\ Len(r.starting_balance) = 1
         /\ Len(r.total_return) = 1
         /\ r.total_return[1] = r.current_balance[1] - r.starting_balance[1]

\* ---- C26
\* C26: every result of get_utbot_signal has a signal among Buy, Sell and
\* Hold, a price above zero and an ATR of zero or more, also when no
\* network source delivers candles or the indicator computation raises.
C26_FeedContract ==
  feed.pc = "signalled" =>
     /\ feed.result.signal \in {"Buy", "Sell", "Hold"}
     /\ feed.result.price > 0
     /\ feed.result.atr >= 0

\* ---- C30
\* the sources that did not deliver candles
Failed(outcomes) == {i \in 1..NetworkSources : outcomes[i] # "data"}

\* the first source that delivers candles, the mock generator being the last
FirstGood(outcomes) ==
  IF Failed(outcomes) = 1..NetworkSources THEN MockSource
  ELSE CHOOSE i \in 1..NetworkSources :
         /\ outcomes[i] = "data"
         /\ \A j \in 1..(i - 1) : outcomes[j] # "data"

\* C30: fetch_btc_data calls its sources in the listed order, each only
\* after every earlier one raised or returned an empty frame, and returns
\* the frame of the first that returns candles; the mock generator being
\* the last source, the result is never empty and no exception of a
\* source reaches the caller.
C30_FetchFallbackOrder ==
  feed.pc = "fetched" =>
     LET k == FirstGood(feed.outcomes)
     IN  /\ feed.fetch.frame = "data"
         /\ feed.fetch.source = k
         /\ feed.fetch.attempted = [i \in 1..k |-> i]
         /\ \A n \in 1..Len(feed.fetch.attempted) :
              \A j \in 1..(feed.fetch.attempted[n] - 1) :
                feed.outcomes[j] \in {"raise", "empty"}

\* every network source fails, some raising and some returning nothing,
\* and the candles are those of the mock generator
C30_Witness ==
  /\ feed.pc = "fetched"
  /\ \E i, j \in 1..NetworkSources :
       feed.outcomes[i] = "raise" /\ feed.outcomes[j] = "empty"
  /\ Failed(feed.outcomes) = 1..NetworkSources
  /\ feed.fetch.source = MockSource
  /\ Len(feed.fetch.attempted) = MockSource

\* ---- C27
\* C27: when a tick closes a position in full, by stop-loss, by the last
\* take-profit or by an opposite signal, the closed trade it returns is the
\* non-partial history record of that close; it returns none only if the
\* tick closed no position in full.
C27_ReturnedClosedTrade ==
  (Ticked /\ ValidInputs) =>
     /\ FullCloseIndex # 0 =>
          tick.last_closed_trade = data.history[FullCloseIndex]
     /\ FullCloseIndex = 0 => tick.last_closed_trade = NoRecord

\* ---- C28
\* the unrounded profit in account currency that history record rec of a
\* position of original amount original booked
UnroundedProfit(rec, original) ==
  LET move == IF rec.type = "LONG" THEN rec.exit_price - rec.entry_price
              ELSE rec.entry_price - rec.exit_price
      level == CHOOSE i \in 1..Len(config.ladder) : TPName(i) = rec.tp_name
      amount == IF rec.partial THEN (original * config.ladder[level]) \div 100
                ELSE rec.amount
  IN  move * amount * BTC_USDT_RATE

SumUnrounded(history, original) ==
  LET F[k \in 0..Len(history)] ==
        IF k = 0 THEN 0 ELSE F[k - 1] + UnroundedProfit(history[k], original)
  IN  F[Len(history)]

\* C28: from a fresh account, the balance is the starting balance plus
\* the unrounded profits of all history records, partial and full; a tick
\* that appends no record leaves the balance as it was, and so does the
\* opening of a position.
C28_LedgerConsistency ==
  /\ data.balance = START_BALANCE * Scale + SumUnrounded(data.history, config.size)
  /\ (Ticked /\ TickRecords = <<>>) => data.balance = tick.pre.balance
  /\ (Ticked /\ Step2Opened) => data.balance - tick.mid.balance =
         SumUnrounded(SubSeq(data.history, Len(tick.mid.history) + 1,
                             Len(data.history)), config.size)

\* a balance made of profits that are no whole cents
C28_Witness ==
  /\ Ticked /\ Len(data.history) >= 2
  /\ data.history[1].partial
  /\ data.balance # START_BALANCE * Scale + SumProfit(data.history)

\* ---- C29
\* C29: an open position has breakeven_moved only if its first
\* take-profit level is marked hit, and as long as breakeven_moved is
\* false its stop is the one it was opened with: over a tick that
\* leaves the position open and not at breakeven the stop does not change.
C29_BreakevenFlag ==
  /\ (IsOpen(data.open_trade) /\ data.open_trade.breakeven_moved) =>
       data.open_trade.tp_levels[1].hit
  /\ Step2Opened => ~data.open_trade.breakeven_moved
  /\ (SamePositionOpen /\ ~data.open_trade.breakeven_moved) =>
       /\ ~PrePos.breakeven_moved
       /\ data.open_trade.stop_loss = PrePos.stop_loss
       /\ tick.trail = "not called"

\* the tick of the first take-profit: the flag is set with the level, the
\* stop having been the opening one until then
C29_Witness ==
  /\ SamePositionOpen /\ ~PrePos.breakeven_moved
  /\ data.open_trade.breakeven_moved /\ data.open_trade.tp_levels[1].hit
  /\ data.open_trade.stop_loss # PrePos.stop_loss
  /\ config.trailing_enabled

\* ---- C31
\* the indicators have a latest pos: candles were fetched and the
\* computation of lines 640-684 ran to its return
Signalled == feed.pc = "signalled" /\ feed.fetch.frame = "data" /\ ~feed.raises

\* C31: the signal is Buy only when indicator #2's latest pos is 1 and
\* indicator #1's is not -1; whenever indicator #1's latest pos is -1 the
\* signal is Sell and the reported utbot_stop is indicator #1's stop, also
\* when indicator #2 says Buy; the signal is Hold exactly when neither
\* condition holds.
C31_SignalConflictResolution ==
  Signalled =>
     /\ feed.result.signal = "Buy" => (feed.pos2 = 1 /\ feed.pos1 # 0 - 1)
     /\ feed.pos1 = 0 - 1 =>
          (feed.result.signal = "Sell" /\ feed.result.utbot_stop = feed.stop1)
     /\ feed.result.signal = "Hold" <=> (feed.pos1 # 0 - 1 /\ feed.pos2 # 1)

\* the part of C31 about the signal alone: Sell exactly when indicator #1
\* is at -1, Buy exactly when it is not and indicator #2 is at 1, Hold
\* otherwise
C31_SignalAlone ==
  Signalled =>
     /\ feed.result.signal = "Sell" <=> feed.pos1 = 0 - 1
     /\ feed.result.signal = "Buy" <=> (feed.pos1 # 0 - 1 /\ feed.pos2 = 1)
     /\ feed.result.signal = "Hold" <=> (feed.pos1 # 0 - 1 /\ feed.pos2 # 1)

\* both indicators fire, indicator #1's stop is 0.0 and the result names
\* the latest price as utbot_stop
C31_ZeroStopReported ==
  /\ Signalled /\ feed.pos1 = 0 - 1 /\ feed.pos2 = 1
  /\ feed.stop1 = 0 /\ feed.result.signal = "Sell"
  /\ feed.result.utbot_stop = FeedPrice

====
